---- MODULE Spec2Model ----
(***************************************************************************)
(* Model of matrix-app-services: the authenticating reverse proxy          *)
(* (servers/proxy.rs), the identity record store (types/state.rs) and the  *)
(* virtual client registry (client.rs, virtual_client.rs).                 *)
(*                                                                         *)
(* Strings are sequences of atoms: an atom is a run of characters that no  *)
(* operation of the program splits ("alice", "example.org") or a single    *)
(* delimiter ("@", ":", "://").  Option<T> is a sequence of length <= 1.   *)
(***************************************************************************)
EXTENDS Integers, Sequences, FiniteSets, TLC

VARIABLES config, store, req, clients, builders, trees, call, service, serving

vars == <<config, store, req, clients, builders, trees, call, service, serving>>

None == <<>>

Some(x) == <<x>>

IsSome(o) == o # <<>>

Unwrap(o) == o[1]

(***************************************************************************)
(* Secrets.  Each name stands for one random high-entropy value.           *)
(***************************************************************************)
\* Config::appservice_token (the master appservice secret)
MasterSecret == "MASTER"

\* Appservice::proxy_token (the ProxySecret), generate_key(128) at construction
ProxySecret == "PROXYSECRET"

\* how many UserRecord tokens exist
NBotSecrets == 2

\* UserRecord::token values, generate_key(128) per record
BotSecret(i) == "BOTSECRET" \o ToString(i)

BotSecrets == {BotSecret(i) : i \in 1..NBotSecrets}

Secrets == {MasterSecret, ProxySecret} \cup BotSecrets

\* Config::sender_localpart
SenderLocalpart == "svc"

\* keys of the internal/user_records collection used by the model
BotLocalparts == {"alice", "bob"}

\* host of the configured homeserver, and some other host
RemoteHost == "example.org"

OtherHost == "other.net"

\* the values Config::homeserver takes: a bare server name or a full URL
Homeservers == {<<RemoteHost>>, <<"http", "://", RemoteHost>>}

(***************************************************************************)
(* types/config.rs                                                         *)
(***************************************************************************)
\* Config::homeserver_url: the homeserver string is parsed as it is when it
\* starts with "http" and contains "://", and behind "https://" otherwise
homeserver_url(cfg) ==
    IF Len(cfg.homeserver) >= 3 /\ SubSeq(cfg.homeserver[1], 1, 4) = "http"
                                /\ cfg.homeserver[2] = "://"
    THEN [scheme |-> cfg.homeserver[1], host |-> cfg.homeserver[3], port |-> ""]
    ELSE [scheme |-> "https", host |-> cfg.homeserver[1], port |-> ""]

\* Config::server_name: the host of the homeserver URL
server_name(cfg) == homeserver_url(cfg).host

(***************************************************************************)
(* types/user.rs                                                           *)
(***************************************************************************)
\* UserRecord::new_with_id: a fresh token and the id @localpart:server
new_with_id(localpart, token) ==
    [token |-> token, user_id |-> <<"@", localpart, ":", RemoteHost>>]

\* UserRecord::new: a fresh token and a generated localpart
new_record(token) ==
    [token |-> token, user_id |-> <<"@", "generated", ":", RemoteHost>>]

\* the records held under a key: one made by new_with_id for that key, one
\* made by new
UserRecords(key) ==
    {new_with_id(key, BotSecret(1))} \cup {new_record(BotSecret(i)) : i \in 2..NBotSecrets}

(***************************************************************************)
(* types/state.rs: State<UserRecord> over the internal/user_records tree   *)
(***************************************************************************)
\* ciborium::into_writer: the CBOR bytes of a value
into_writer(value) == [cbor |-> value]

\* ciborium::from_reader: the value of CBOR bytes
from_reader(bytes) == bytes.cbor

\* the value of an entry of the tree, if there is one
read(entry) == IF IsSome(entry) THEN Some(from_reader(Unwrap(entry))) ELSE None

\* State::get
state_get(tree, key) == read(tree[key])

\* an insert that hands back the value it has just stored
state_insert_echo(tree, key, value) ==
    [tree |-> [tree EXCEPT ![key] = Some(into_writer(value))], previous |-> Some(value)]

\* State::insert: the new tree and the value stored before
state_insert(tree, key, value) ==
    [tree |-> [tree EXCEPT ![key] = Some(into_writer(value))],
     previous |-> read(tree[key])]

\* State::remove: the new tree and the value stored before
state_remove(tree, key) ==
    [tree |-> [tree EXCEPT ![key] = None], previous |-> read(tree[key])]

\* State::keys
state_keys(tree) == {k \in DOMAIN tree : IsSome(tree[k])}

(***************************************************************************)
(* http::HeaderMap: a header name maps to the sequence of its values, the  *)
(* empty sequence when the header is absent; a value is a string of atoms. *)
(***************************************************************************)
HeaderNames ==
    {"host", "authorization", "accept", "x-proxy-role", "x-proxy-token",
     "x-proxy-bot-token", "x-proxy-bot-user"}

\* the four headers of the internal proxy protocol
InternalHeaders ==
    {"x-proxy-role", "x-proxy-token", "x-proxy-bot-token", "x-proxy-bot-user"}

\* str::starts_with
starts_with(s, prefix) ==
    Len(s) >= Len(prefix) /\ SubSeq(s, 1, Len(prefix)) = prefix

\* HeaderMap::insert: the value replaces every value the header had
header_insert(headers, name, value) == [headers EXCEPT ![name] = <<value>>]

\* HeaderMap::get(..).to_str() as ProxiedRequest::header uses it: the first value
header(request, name) ==
    IF request.headers[name] = <<>> THEN None ELSE Some(request.headers[name][1])

(***************************************************************************)
(* url::Url and the form-urlencoded serializer                             *)
(***************************************************************************)
\* form_urlencoded::byte_serialize on one atom: '@' and ':' are escaped,
\* alphanumerics and "*-._" are kept
byte_serialize_atom(a) ==
    CASE a = "@" -> "%40"
      [] a = ":" -> "%3A"
      [] OTHER -> a

\* form_urlencoded::byte_serialize
byte_serialize(s) == [i \in 1..Len(s) |-> byte_serialize_atom(s[i])]

\* percent decoding of one atom, as the receiver of the query does it
percent_decode_atom(a) ==
    CASE a = "%40" -> "@"
      [] a = "%3A" -> ":"
      [] OTHER -> a

\* form_urlencoded::parse on one value
percent_decode(s) == [i \in 1..Len(s) |-> percent_decode_atom(s[i])]

\* url::form_urlencoded::Serializer::append_pair on Url::query_pairs_mut
append_pair(url, name, value) ==
    [url EXCEPT !.query = Append(@, <<name, byte_serialize(value)>>)]

\* Url::set_scheme between http and https: an explicit port that is the new
\* scheme's default is dropped, every other part is kept
set_scheme(url, scheme) ==
    [url EXCEPT !.scheme = scheme,
                !.port = IF (scheme = "http" /\ @ = "80") \/ (scheme = "https" /\ @ = "443")
                         THEN "" ELSE @]

\* Url::parse of "https://<Host header><request uri>": the Host value is
\* <<host>> or <<host, ":", port>>; the default port 443 is normalised away
parse_url(host_value, uri) ==
    [scheme |-> "https",
     host |-> host_value[1],
     port |-> IF Len(host_value) = 3 /\ host_value[3] # "443" THEN host_value[3] ELSE "",
     path |-> uri.path,
     query |-> uri.query]

(***************************************************************************)
(* Inbound requests of the proxy listener                                  *)
(***************************************************************************)
\* the Host header: absent, the homeserver without a port, with a port and
\* with the default port of http, another host
HostValues ==
    {<<>>, <<<<RemoteHost>>>>, <<<<RemoteHost, ":", "8448">>>>, <<<<RemoteHost, ":", "80">>>>,
     <<<<OtherHost, ":", "8448">>>>}

RoleValues == {<<>>, <<<<"SERVICE">>>>, <<<<"BOT">>>>, <<<<"service">>>>}

TokenValues == {<<>>, <<<<ProxySecret>>>>, <<<<BotSecret(1)>>>>}

BotTokenValues == {<<>>} \cup {<<<<t>>>> : t \in BotSecrets}

BotUserValues == {<<>>} \cup {<<<<lp>>>> : lp \in BotLocalparts}

AuthorizationValues == {<<>>, <<<<"Bearer ", BotSecret(1)>>>>}

\* how many values one header of a request carries
MaxHeaderValues == 2

\* the Accept header and the query of the request uri: neither, or an Accept
\* header of several values with a user_id parameter the caller supplies
ExtraValues ==
    {[accept |-> <<>>, query |-> <<>>],
     [accept |-> [i \in 1..MaxHeaderValues |-> <<"media/" \o ToString(i)>>],
      query |-> <<<<"user_id", <<"%40", "eve", "%3A", RemoteHost>>>>>>]}

\* an axum::extract::Request as hyper hands it to the handler
InboundRequest(host, role, token, bot_token, bot_user, authz, accept, query) ==
    [method |-> "GET",
     uri |-> [path |-> "/_matrix/client/v3/account/whoami", query |-> query],
     version |-> "HTTP/1.1",
     headers |-> [n \in HeaderNames |->
                    CASE n = "host" -> host
                      [] n = "authorization" -> authz
                      [] n = "accept" -> accept
                      [] n = "x-proxy-role" -> role
                      [] n = "x-proxy-token" -> token
                      [] n = "x-proxy-bot-token" -> bot_token
                      [] n = "x-proxy-bot-user" -> bot_user],
     body |-> "body"]

InboundRequests ==
    {InboundRequest(h, r, t, bt, bu, az, e.accept, e.query) :
        h \in HostValues, r \in RoleValues, t \in TokenValues,
        bt \in BotTokenValues, bu \in BotUserValues,
        az \in AuthorizationValues, e \in ExtraValues}

(***************************************************************************)
(* servers/proxy.rs                                                        *)
(***************************************************************************)
\* From<axum::extract::Request>: .expect("Expected host header") panics when
\* the request carries no Host header
can_parse(value) == value.headers["host"] # <<>>

\* From<axum::extract::Request> for ProxiedRequest
ProxiedRequest_from(value) ==
    [method |-> value.method,
     url |-> parse_url(value.headers["host"][1], value.uri),
     version |-> value.version,
     headers |-> value.headers,
     body |-> value.body]

\* an into_request that takes scheme and port from the homeserver URL
into_request_rebased(request) ==
    LET hs == homeserver_url(config) IN
    [method |-> request.method,
     url |-> IF request.url.host = hs.host
             THEN [request.url EXCEPT !.scheme = hs.scheme, !.port = hs.port]
             ELSE request.url,
     version |-> request.version,
     headers |-> request.headers,
     body |-> request.body]

\* ProxiedRequest::into_request: the scheme of the homeserver when the host
\* is the homeserver's, the URL as it is otherwise
into_request(request) ==
    LET hs == homeserver_url(config) IN
    [method |-> request.method,
     url |-> IF request.url.host = hs.host
             THEN set_scheme(request.url, hs.scheme)
             ELSE request.url,
     version |-> request.version,
     headers |-> request.headers,
     body |-> request.body]

\* the "BOT" arm without the look-up of the record: the two bot headers are
\* only required to be there
verify_bot_without_lookup(request) ==
    LET token == header(request, "x-proxy-token")
        bot_token == header(request, "x-proxy-bot-token")
        bot_name == header(request, "x-proxy-bot-user")
    IN  IF /\ IsSome(token) /\ Unwrap(token) = <<ProxySecret>>
           /\ IsSome(bot_token) /\ IsSome(bot_name)
        THEN Some([kind |-> "Bot",
                   authorization |-> config.appservice_token,
                   user_id |-> <<"@", Unwrap(bot_name)[1], ":", server_name(config)>>])
        ELSE None

\* the "BOT" arm of ProxiedRequest::verify_entity
verify_bot(request) ==
    LET token == header(request, "x-proxy-token")
        bot_token == header(request, "x-proxy-bot-token")
        bot_name == header(request, "x-proxy-bot-user")
    IN  IF IsSome(token) /\ Unwrap(token) = <<ProxySecret>>
        THEN IF IsSome(bot_token)
             THEN IF IsSome(bot_name)
                  THEN LET key == Unwrap(bot_name)[1]
                           found == IF key \in DOMAIN store
                                    THEN state_get(store, key) ELSE None
                       IN  IF IsSome(found)
                           THEN IF Unwrap(bot_token) = <<Unwrap(found).token>>
                                THEN Some([kind |-> "Bot",
                                           authorization |-> config.appservice_token,
                                           user_id |-> <<"@", key, ":", server_name(config)>>])
                                ELSE None
                           ELSE None
                  ELSE None
             ELSE None
        ELSE None

\* ProxiedRequest::verify_entity
verify_entity(request) ==
    LET role == header(request, "x-proxy-role") IN
    IF IsSome(role)
    THEN CASE Unwrap(role) = <<"SERVICE">> ->
                LET token == header(request, "x-proxy-token") IN
                IF IsSome(token) /\ Unwrap(token) = <<ProxySecret>>
                THEN Some([kind |-> "Service", authorization |-> config.appservice_token])
                ELSE None
           [] Unwrap(role) = <<"BOT">> -> verify_bot(request)
           [] OTHER -> None
    ELSE None

\* filter_headers with the prefix of the two bot headers only
filter_headers_bot_prefix(headers) ==
    [n \in DOMAIN headers |->
        IF starts_with(n, "x-proxy-bot-") \/ headers[n] = <<>>
        THEN <<>>
        ELSE <<headers[n][1]>>]

\* the filter_map over HeaderMap::into_iter in authorize: into_iter yields the
\* name with the first value of a header only, a value without a name is
\* dropped, and so is every header whose name starts with "x-proxy-"
filter_headers(headers) ==
    [n \in DOMAIN headers |->
        IF starts_with(n, "x-proxy-") \/ headers[n] = <<>>
        THEN <<>>
        ELSE <<headers[n][1]>>]

\* authorize with HeaderMap::append in place of HeaderMap::insert: the value
\* the caller sent stays the first one
authorize_appending(request, entity) ==
    LET bearer == <<"Bearer ", entity.authorization>>
        with_auth == [request EXCEPT !.headers["authorization"] = Append(@, bearer)]
        with_user == IF entity.kind = "Bot"
                     THEN [with_auth EXCEPT !.url = append_pair(@, "user_id", entity.user_id)]
                     ELSE with_auth
    IN  [with_user EXCEPT !.headers = filter_headers(@)]

\* authorize that treats a Bot as it treats the Service
authorize_without_user_id(request, entity) ==
    LET bearer == <<"Bearer ", entity.authorization>>
        with_auth == [request EXCEPT !.headers = header_insert(@, "authorization", bearer)]
    IN  [with_auth EXCEPT !.headers = filter_headers(@)]

\* ProxiedRequest::authorize
authorize(request, entity) ==
    LET bearer == <<"Bearer ", entity.authorization>>
        with_auth == [request EXCEPT !.headers = header_insert(@, "authorization", bearer)]
        with_user == IF entity.kind = "Bot"
                     THEN [with_auth EXCEPT !.url = append_pair(@, "user_id", entity.user_id)]
                     ELSE with_auth
    IN  [with_user EXCEPT !.headers = filter_headers(@)]

\* the handler's slot when no request is being handled
IdleRequest ==
    [phase |-> "Idle", inbound |-> None, forwarded |-> None, response |-> None,
     logs |-> <<>>, calls |-> 0]

\* handle_proxy up to the await of client.execute: the request is parsed,
\* logged, classified and, when verified, authorized, logged again and sent
handle_proxy(value) ==
    IF ~can_parse(value)
    THEN [IdleRequest EXCEPT !.phase = "Panicked", !.inbound = Some(value)]
    ELSE LET request == ProxiedRequest_from(value)
             verified == verify_entity(request)
         IN  IF IsSome(verified)
             THEN LET authorized == authorize(request, Unwrap(verified))
                      rqw == into_request(authorized)
                  IN  [phase |-> "Forwarded",
                       inbound |-> Some(value),
                       forwarded |-> Some(rqw),
                       response |-> None,
                       logs |-> <<[line |-> "PROXYING: ", request |-> request],
                                  [line |-> "AUTHORIZED: ", request |-> authorized]>>,
                       calls |-> 1]
             ELSE [phase |-> "Unauthorized",
                   inbound |-> Some(value),
                   forwarded |-> None,
                   response |-> Some([status |-> 401, body |-> <<"proxy.unauthorized">>]),
                   logs |-> <<[line |-> "PROXYING: ", request |-> request]>>,
                   calls |-> 0]

(***************************************************************************)
(* client.rs and virtual_client.rs: the registry of virtual clients        *)
(***************************************************************************)
\* the callers of VirtualClientBuilder::build: one, whose calls follow one another
Builders == {"caller", "racer"}

\* the caller that builds one client after the other
Sequential == {"caller"}

\* a localpart outside the user id grammar
InvalidLocalparts == {"Bad Name"}

\* the guard of the cache lock a build still holds while it waits at `pc`:
\* retrieve_client and store_client drop their guard when they return
held_across_await_write(pc) == IF pc = "idle" THEN "none" ELSE "write"

held_across_await(pc) == "none"

\* RwLock::read on the cache: no other build holds the write guard
can_read(b) ==
    \A other \in Builders \ {b} : held_across_await(builders[other].pc) # "write"

\* RwLock::write on the cache: no other build holds a guard
can_write(b) ==
    \A other \in Builders \ {b} : held_across_await(builders[other].pc) = "none"

\* the localparts build is called with
BuildLocalparts == {SenderLocalpart, "alice"}

\* a session the caller persisted earlier and hands to restored_session
PriorSession(localpart) ==
    [user_id |-> <<"@", localpart, ":", RemoteHost>>,
     access_token |-> "PRIORTOKEN",
     origin |-> "restored"]

\* the default headers configure_service_client wires into the HTTP client
service_headers ==
    [n \in InternalHeaders |->
        CASE n = "x-proxy-role" -> <<<<"SERVICE">>>>
          [] n = "x-proxy-token" -> <<<<ProxySecret>>>>
          [] OTHER -> <<>>]

\* the default headers configure_bot_client wires into the HTTP client
\* bot headers that name the bot by the localpart of the record's user id
bot_headers_by_user_id(localpart, user) ==
    [n \in InternalHeaders |->
        CASE n = "x-proxy-role" -> <<<<"BOT">>>>
          [] n = "x-proxy-token" -> <<<<ProxySecret>>>>
          [] n = "x-proxy-bot-token" -> <<<<user.token>>>>
          [] n = "x-proxy-bot-user" -> <<<<user.user_id[2]>>>>]

bot_headers(localpart, user) ==
    [n \in InternalHeaders |->
        CASE n = "x-proxy-role" -> <<<<"BOT">>>>
          [] n = "x-proxy-token" -> <<<<ProxySecret>>>>
          [] n = "x-proxy-bot-token" -> <<<<user.token>>>>
          [] n = "x-proxy-bot-user" -> <<<<localpart>>>>]

\* Appservice::retrieve_client
retrieve_client(localpart) == clients[localpart]

\* a store_client that stores nothing
store_client_discarding(map, client) == map

\* a store_client that keeps the client the cache already holds
store_client_keeping(map, client) ==
    IF IsSome(map[client.localpart])
    THEN map
    ELSE [map EXCEPT ![client.localpart] = Some(client)]

\* Appservice::store_client: the map after the insert under the client's localpart
store_client(map, client) == [map EXCEPT ![client.localpart] = Some(client)]

\* the kind build derives from the localpart
\* a kind taken from the record store: Bot for a registered localpart
client_kind_by_record(localpart) ==
    IF localpart \in DOMAIN store /\ IsSome(store[localpart]) THEN "Bot" ELSE "Service"

client_kind(localpart) ==
    IF localpart = config.sender_localpart THEN "Service" ELSE "Bot"

\* the session build synthesizes when none is restored and no login is made
synthesized_session(localpart) ==
    [user_id |-> <<"@", localpart, ":", server_name(config)>>,
     access_token |-> config.appservice_token,
     origin |-> "synthesized"]

\* Session::from(&response) of the appservice login
login_session(localpart) ==
    [user_id |-> <<"@", localpart, ":", server_name(config)>>,
     access_token |-> "LOGINTOKEN",
     origin |-> "login"]

\* a builder that is not inside build
IdleBuilder ==
    [pc |-> "idle", localpart |-> "", log_in |-> FALSE, create_new |-> FALSE,
     restored_session |-> None, client |-> None, cache_hit |-> FALSE,
     looked_up |-> FALSE, login_call |-> FALSE, session |-> None,
     result |-> None]

Ok(client) == Some([ok |-> TRUE, client |-> client])

Err(error) == Some([ok |-> FALSE, error |-> error])

\* ruma::UserId::parse_with_server_name: a localpart with a character outside
\* the user id grammar is an error
valid_localpart(localpart) == localpart # "Bad Name"

\* a construction that wires a newly made record into the client of a
\* localpart that has none
build_construct_defaulting(localpart, log_in, create_new, restored, id) ==
    LET user == IF localpart \in DOMAIN store /\ IsSome(state_get(store, localpart))
                THEN Unwrap(state_get(store, localpart))
                ELSE new_with_id(localpart, BotSecret(1))
    IN  [IdleBuilder EXCEPT !.localpart = localpart, !.log_in = log_in,
                            !.create_new = create_new,
                            !.restored_session = restored,
                            !.pc = "configuring", !.looked_up = TRUE,
                            !.client = Some([id |-> id,
                                             localpart |-> localpart,
                                             kind |-> client_kind(localpart),
                                             headers |-> IF client_kind(localpart) = "Bot"
                                                         THEN bot_headers(localpart, user)
                                                         ELSE service_headers,
                                             session |-> None])]

\* VirtualClientBuilder::build from the user id to its first await: the
\* user id, the kind, and configure_*_client up to ClientBuilder::build
build_construct(localpart, log_in, create_new, restored, id) ==
    LET base == [IdleBuilder EXCEPT !.localpart = localpart, !.log_in = log_in,
                                    !.create_new = create_new,
                                    !.restored_session = restored]
    IN  IF ~valid_localpart(localpart)
        THEN [base EXCEPT !.result = Err(<<"IdParse", localpart>>)]
        ELSE IF client_kind(localpart) = "Bot"
        THEN LET user == IF localpart \in DOMAIN store
                         THEN state_get(store, localpart) ELSE None
             IN  IF IsSome(user)
                 THEN [base EXCEPT !.pc = "configuring", !.looked_up = TRUE,
                                   !.client = Some([id |-> id,
                                                    localpart |-> localpart,
                                                    kind |-> "Bot",
                                                    headers |-> bot_headers(localpart, Unwrap(user)),
                                                    session |-> None])]
                 ELSE [base EXCEPT !.looked_up = TRUE,
                                   !.result = Err(<<"UnregisteredUser", localpart>>)]
        ELSE [base EXCEPT !.pc = "configuring",
                          !.client = Some([id |-> id,
                                           localpart |-> localpart,
                                           kind |-> "Service",
                                           headers |-> service_headers,
                                           session |-> None])]

\* build that never consults the cache
build_enter_uncached(localpart, log_in, create_new, restored, id) ==
    build_construct(localpart, log_in, create_new, restored, id)

\* VirtualClientBuilder::build up to its first await: the cached client when
\* there is one and no new one is asked for, the construction otherwise
build_enter(localpart, log_in, create_new, restored, id) ==
    LET cached == IF localpart \in DOMAIN clients
                  THEN retrieve_client(localpart) ELSE None
    IN  IF ~create_new /\ IsSome(cached)
        THEN [IdleBuilder EXCEPT !.localpart = localpart, !.log_in = log_in,
                                 !.create_new = create_new,
                                 !.restored_session = restored,
                                 !.cache_hit = TRUE,
                                 !.result = Ok(Unwrap(cached))]
        ELSE build_construct(localpart, log_in, create_new, restored, id)

\* a session selection that sends the login whenever it was asked for
build_session_login_any(b) ==
    IF b.log_in
    THEN [b EXCEPT !.pc = "login", !.login_call = TRUE]
    ELSE IF IsSome(b.restored_session)
    THEN [b EXCEPT !.pc = "restoring", !.session = b.restored_session]
    ELSE [b EXCEPT !.pc = "restoring",
                   !.session = Some(synthesized_session(b.localpart))]

\* build after the client is configured: the session is the restored one, the
\* one a login will return, or the synthesized one
build_session(b) ==
    IF IsSome(b.restored_session)
    THEN [b EXCEPT !.pc = "restoring", !.session = b.restored_session]
    ELSE IF b.log_in /\ Unwrap(b.client).kind # "Service"
    THEN [b EXCEPT !.pc = "login", !.login_call = TRUE]
    ELSE [b EXCEPT !.pc = "restoring",
                   !.session = Some(synthesized_session(b.localpart))]

\* build after restore_session: the VirtualClient that is stored and returned
build_output(b) == [Unwrap(b.client) EXCEPT !.session = b.session]

\* build returning an error
build_fail(b, error) ==
    [b EXCEPT !.pc = "idle", !.client = None, !.session = None, !.result = Err(error)]

\* a request a virtual client sends: the default headers wired into its HTTP
\* client, the access token of its session, the homeserver as the Host
client_request(client) ==
    InboundRequest(<<<<RemoteHost>>>>,
                   client.headers["x-proxy-role"],
                   client.headers["x-proxy-token"],
                   client.headers["x-proxy-bot-token"],
                   client.headers["x-proxy-bot-user"],
                   <<<<"Bearer ", Unwrap(client.session).access_token>>>>,
                   <<>>,
                   <<>>)

(***************************************************************************)
(* types/config.rs: PortRange                                              *)
(***************************************************************************)
\* the number of u16 values
U16 == 65536

\* Default for PortRange: (50000..65000).into(), the end taken as `high`
DefaultPortRange == [low |-> 50000, high |-> 65000]

\* how many ports a configured range spans beyond its lowest one
MaxSpan == 2

\* the ranges a configuration gives, low <= high <= 65535, up to the last port
PortRanges ==
    LET ends == UNION {{l + d : d \in 0..MaxSpan} : l \in {0, 1024, 50000, U16 - 1 - MaxSpan}}
    IN  {value \in [low : ends, high : ends] :
            value.low <= value.high /\ value.high <= value.low + MaxSpan}

\* how the crate is compiled: with overflow checks (debug) or without
Builds == {"debug", "release"}

\* From<PortRange> for Range<u16>: low..high + 1 in u16 arithmetic; the
\* addition panics under overflow checks and wraps around without them
Range_from(value, build) ==
    IF value.high + 1 >= U16 /\ build = "debug"
    THEN None
    ELSE Some([start |-> value.low, end |-> (value.high + 1) % U16])

\* the ports of a half-open Range<u16>
range_ports(range) == {port \in range.start..(range.end - 1) : TRUE}

\* PortRange::pick: the candidates handed to openport::pick_unused_port and
\* what comes back, `free` being the candidate found unused, if any; the
\* .expect panics when no port comes back
pick(value, build, free) ==
    LET range == Range_from(value, build) IN
    IF ~IsSome(range)
    THEN [candidates |-> None, returned |-> [ok |-> FALSE, panic |-> "attempt to add with overflow"]]
    ELSE [candidates |-> Some(range_ports(Unwrap(range))),
          returned |-> IF IsSome(free) /\ Unwrap(free) \in range_ports(Unwrap(range))
                       THEN [ok |-> TRUE, port |-> Unwrap(free)]
                       ELSE [ok |-> FALSE, panic |-> "No ports open in the specified range"]]

(***************************************************************************)
(* types/proxy.rs: ProxyResolver                                           *)
(***************************************************************************)
\* the hostnames a client asks the resolver for
Hostnames == {RemoteHost, OtherHost, "localhost"}

\* SocketAddr::from(([127, 0, 0, 1], port))
loopback(port) == [ip |-> <<127, 0, 0, 1>>, port |-> port]

\* a resolver that answers for the name and keeps the port of the proxy
resolve_by_name(resolver, name) ==
    [ok |-> TRUE,
     addrs |-> IF name = "localhost" THEN <<loopback(resolver)>>
               ELSE <<[ip |-> <<192, 0, 2, Len(name)>>, port |-> resolver]>>]

\* ProxyResolver::resolve: Ok of the one address 127.0.0.1:<port>, the name
\* is not looked at
resolve(resolver, name) == [ok |-> TRUE, addrs |-> <<loopback(resolver)>>]

(***************************************************************************)
(* client.rs: the sled database and the server tasks of an Appservice      *)
(***************************************************************************)
\* the keys of the trees
TreeKeys == BotLocalparts

\* a tree with no entry
EmptyTree == [k \in TreeKeys |-> None]

\* the collection names a caller passes to custom_state
Collections == {"internal/user_records", "notes"}

\* Appservice::state_user_records: the name of the tree of the user records
state_user_records == "internal/user_records"

\* a custom_state that opens the collection under the name as given
custom_state_plain(collection) == collection

\* Appservice::custom_state: the name of the tree it opens
custom_state(collection) == "custom/" \o collection

\* the trees of the database other than the tree of the user records
TreeNames ==
    ({custom_state(c) : c \in Collections} \cup Collections) \ {state_user_records}

\* the handles of the service: the Appservice and a clone of it
Handles == {"service", "clone"}

\* the callers of serve
Callers == {"main", "worker"}

\* how many server tasks the runtime is given
MaxTasks == 3

\* a caller that is not in serve
IdleCaller == [pc |-> "idle", handle |-> None, result |-> None]

\* Appservice::new after the port is picked: both cells empty, no task
NewService(port) ==
    [state |-> "ready",
     handles |-> [h \in Handles |->
                    IF h = "service"
                    THEN Some([web_server |-> None, proxy_server |-> None,
                               proxy_port |-> port])
                    ELSE None],
     tasks |-> <<>>]

(***************************************************************************)
(* The state machine                                                       *)
(***************************************************************************)
\* Appservice::new: a fresh record store, no client cached, no server task;
\* the configuration has no public URL and the default port range, and the
\* lowest port of the range was free
Init ==
    /\ config \in {[homeserver |-> h,
                    appservice_token |-> MasterSecret,
                    sender_localpart |-> SenderLocalpart,
                    url |-> None,
                    proxy_ports |-> DefaultPortRange] : h \in Homeservers}
    /\ store = [k \in BotLocalparts |-> None]
    /\ req = IdleRequest
    /\ clients = [lp \in BuildLocalparts |-> None]
    /\ builders = [b \in Builders |-> IdleBuilder]
    /\ trees = [n \in TreeNames |-> EmptyTree]
    /\ call = None
    /\ service = NewService(DefaultPortRange.low)
    /\ serving = [c \in Callers |-> IdleCaller]

\* State::insert on the user record store
StoreInsert(k) ==
    /\ \E v \in UserRecords(k) : store' = state_insert(store, k, v).tree
    /\ UNCHANGED <<trees, call, service, serving, config, req, clients, builders>>

\* State::remove on the user record store
StoreRemove(k) ==
    /\ store' = state_remove(store, k).tree
    /\ UNCHANGED <<trees, call, service, serving, config, req, clients, builders>>

\* handle_proxy is entered with the request `value`
Receive(value) ==
    /\ req.phase = "Idle"
    /\ req' = handle_proxy(value)
    /\ UNCHANGED <<trees, call, service, serving, config, store, clients, builders>>

\* any request reaches the proxy listener
ReceiveAny == \E value \in InboundRequests : Receive(value)

\* a cached virtual client sends a request
ClientSend ==
    \E lp \in BuildLocalparts :
        /\ IsSome(clients[lp])
        /\ Receive(client_request(Unwrap(clients[lp])))

\* client.execute returns Ok: the upstream response is streamed back
UpstreamOk ==
    /\ req.phase = "Forwarded"
    /\ \E status \in {200, 403} :
          req' = [req EXCEPT !.phase = "Streamed",
                             !.response = Some([status |-> status, body |-> <<"upstream">>])]
    /\ UNCHANGED <<trees, call, service, serving, config, store, clients, builders>>

\* a handler that sends the request again when client.execute returns Err
UpstreamErr_retrying ==
    /\ req.phase = "Forwarded"
    /\ req.calls < 3
    /\ req' = [req EXCEPT !.calls = @ + 1]
    /\ UNCHANGED <<trees, call, service, serving, config, store, clients, builders>>

\* client.execute returns Err: 500 with the Debug text of the reqwest error,
\* which names the URL of the request
UpstreamErr ==
    /\ req.phase = "Forwarded"
    /\ req' = [req EXCEPT !.phase = "UpstreamError",
                          !.response = Some([status |-> 500,
                                             body |-> <<"Internal error: ",
                                                        Unwrap(req.forwarded).url>>])]
    /\ UNCHANGED <<trees, call, service, serving, config, store, clients, builders>>

\* the handler task has ended; the next request is handled
Done ==
    /\ req.phase \in {"Panicked", "Unauthorized", "Streamed", "UpstreamError"}
    /\ req' = IdleRequest
    /\ UNCHANGED <<trees, call, service, serving, config, store, clients, builders>>

\* the clients some part of the program still holds: cached, under
\* construction, or returned by the last build of a caller
LiveIds ==
    {Unwrap(clients[lp]).id : lp \in {l \in DOMAIN clients : IsSome(clients[l])}}
      \cup {Unwrap(builders[b].client).id :
                b \in {c \in Builders : IsSome(builders[c].client)}}
      \cup {Unwrap(builders[b].result).client.id :
                b \in {c \in Builders : /\ IsSome(builders[c].result)
                                         /\ Unwrap(builders[c].result).ok}}

\* the identity of a newly allocated client: a name no live client has
fresh_id == CHOOSE i \in 1..(Cardinality(LiveIds) + 1) :
                /\ i \notin LiveIds
                /\ \A j \in 1..(i - 1) : j \in LiveIds

\* a build that drops the cached client before it constructs a new one
BuildStart_invalidating(b, lp, log_in, create_new, restored) ==
    /\ builders[b].pc = "idle"
    /\ builders' = [builders EXCEPT ![b] =
                      build_enter(lp, log_in, create_new, restored, fresh_id)]
    /\ clients' = IF create_new /\ lp \in DOMAIN clients
                  THEN [clients EXCEPT ![lp] = None] ELSE clients
    /\ UNCHANGED <<trees, call, service, serving, config, store, req>>

\* VirtualClientBuilder::build is called
\* a build that registers the bot it does not find in the store
BuildStart_registering(b, lp, log_in, create_new, restored) ==
    /\ builders[b].pc = "idle"
    /\ create_new \/ can_read(b)
    /\ builders' = [builders EXCEPT ![b] =
                      build_enter(lp, log_in, create_new, restored, fresh_id)]
    /\ store' = IF lp \in DOMAIN store /\ ~IsSome(store[lp])
                THEN state_insert(store, lp, new_with_id(lp, BotSecret(1))).tree
                ELSE store
    /\ UNCHANGED <<trees, call, service, serving, config, req, clients>>

BuildStart(b, lp, log_in, create_new, restored) ==
    /\ builders[b].pc = "idle"
    /\ create_new \/ can_read(b)
    /\ builders' = [builders EXCEPT ![b] =
                      build_enter(lp, log_in, create_new, restored, fresh_id)]
    /\ UNCHANGED <<trees, call, service, serving, config, store, req, clients>>

\* ClientBuilder::build returns
BuildConfigured(b) ==
    \E ok \in BOOLEAN :
        /\ builders[b].pc = "configuring"
        /\ builders' = [builders EXCEPT ![b] =
                          IF ok THEN build_session(@) ELSE build_fail(@, <<"ClientBuild">>)]
        /\ UNCHANGED <<trees, call, service, serving, config, store, req, clients>>

\* the login request returns
BuildLogin(b) ==
    \E ok \in BOOLEAN :
        /\ builders[b].pc = "login"
        /\ builders' = [builders EXCEPT ![b] =
                          IF ok
                          THEN [@ EXCEPT !.pc = "restoring",
                                         !.session = Some(login_session(builders[b].localpart))]
                          ELSE build_fail(@, <<"Login">>)]
        /\ UNCHANGED <<trees, call, service, serving, config, store, req, clients>>

\* restore_session returns; on success the client is stored and returned
BuildRestore(b) ==
    \E ok \in BOOLEAN :
        /\ builders[b].pc = "restoring"
        /\ ok => can_write(b)
        /\ IF ok
           THEN LET output == build_output(builders[b]) IN
                /\ clients' = store_client(clients, output)
                /\ builders' = [builders EXCEPT ![b] =
                                  [@ EXCEPT !.pc = "idle", !.client = None,
                                            !.session = None, !.result = Ok(output)]]
           ELSE /\ clients' = clients
                /\ builders' = [builders EXCEPT ![b] = build_fail(@, <<"RestoreSession">>)]
        /\ UNCHANGED <<trees, call, service, serving, config, store, req>>

\* Config built, Appservice::new not yet called
InitConfig ==
    /\ config \in {[homeserver |-> <<RemoteHost>>,
                    appservice_token |-> MasterSecret,
                    sender_localpart |-> SenderLocalpart,
                    url |-> None,
                    proxy_ports |-> r] : r \in PortRanges}
    /\ store = [k \in BotLocalparts |-> None]
    /\ req = IdleRequest
    /\ clients = [lp \in BuildLocalparts |-> None]
    /\ builders = [b \in Builders |-> IdleBuilder]
    /\ trees = [n \in TreeNames |-> EmptyTree]
    /\ call = None
    /\ service = [state |-> "config", handles |-> [h \in Handles |-> None], tasks |-> <<>>]
    /\ serving = [c \in Callers |-> IdleCaller]

\* Appservice::new: the proxy port is picked from config.proxy_ports; `free`
\* is the port of the configured range openport finds unused, if any
New(build, free) ==
    /\ service.state = "config"
    /\ LET picked == pick(config.proxy_ports, build, free) IN
       /\ call' = Some([op |-> "pick", value |-> config.proxy_ports,
                        candidates |-> picked.candidates,
                        returned |-> picked.returned])
       /\ service' = IF picked.returned.ok
                     THEN NewService(picked.returned.port)
                     ELSE [service EXCEPT !.state = "panicked"]
    /\ UNCHANGED <<trees, serving, config, store, req, clients, builders>>

\* Appservice::new under either build, whichever ports are in use
NewAny ==
    \E build \in Builds :
        \E free \in {None} \cup {Some(p) : p \in config.proxy_ports.low..config.proxy_ports.high} :
            New(build, free)

\* a client's transport asks its ProxyResolver for a hostname
Resolve(name) ==
    /\ service.state = "ready"
    /\ LET resolver == Unwrap(service.handles["service"]).proxy_port IN
       call' = Some([op |-> "resolve", resolver |-> resolver, name |-> name,
                     returned |-> resolve(resolver, name)])
    /\ UNCHANGED <<trees, service, serving, config, store, req, clients, builders>>

\* the construction of the service and the resolver of its clients
NextPorts ==
    \/ NewAny
    \/ \E name \in Hostnames : Resolve(name)

SpecPorts == InitConfig /\ [][NextPorts]_vars

\* the public URLs a configuration gives: none, or one
Urls == {None, Some("https://appservice.example")}

\* Appservice::new of a configuration with or without a public URL
InitServe ==
    /\ config \in {[homeserver |-> <<RemoteHost>>,
                    appservice_token |-> MasterSecret,
                    sender_localpart |-> SenderLocalpart,
                    url |-> u,
                    proxy_ports |-> DefaultPortRange] : u \in Urls}
    /\ store = [k \in BotLocalparts |-> None]
    /\ req = IdleRequest
    /\ clients = [lp \in BuildLocalparts |-> None]
    /\ builders = [b \in Builders |-> IdleBuilder]
    /\ trees = [n \in TreeNames |-> EmptyTree]
    /\ call = None
    /\ service = NewService(DefaultPortRange.low)
    /\ serving = [c \in Callers |-> IdleCaller]

\* Clone for Appservice: the fields are cloned one by one; the clone of a
\* OnceCell is a new cell that holds a clone of the value, if there is one
Clone(from, to) ==
    /\ IsSome(service.handles[from])
    /\ ~IsSome(service.handles[to])
    /\ service' = [service EXCEPT !.handles[to] = service.handles[from]]
    /\ UNCHANGED <<trees, call, serving, config, store, req, clients, builders>>

\* serve is entered through the handle h: it returns at once when the
\* proxy_server cell of h is initialized
ServeEnter(c, h) ==
    /\ serving[c].pc = "idle"
    /\ IsSome(service.handles[h])
    /\ serving' = [serving EXCEPT ![c] =
          IF IsSome(Unwrap(service.handles[h]).proxy_server)
          THEN [pc |-> "idle", handle |-> Some(h), result |-> Some("returned")]
          ELSE [pc |-> IF IsSome(config.url) THEN "web" ELSE "proxy",
                handle |-> Some(h), result |-> None]]
    /\ UNCHANGED <<trees, call, service, config, store, req, clients, builders>>

\* tokio::spawn of a server and OnceCell::set(..).unwrap() on the cell of
\* the caller's handle: the task is started, then set fails on an
\* initialized cell and unwrap panics
spawn_and_set(c, server, cell, next) ==
    LET h == Unwrap(serving[c].handle)
        task == [server |-> server, port |-> Unwrap(service.handles[h]).proxy_port]
        id == Len(service.tasks) + 1
    IN  /\ Len(service.tasks) < MaxTasks
        /\ IF IsSome(Unwrap(service.handles[h])[cell])
           THEN /\ service' = [service EXCEPT !.tasks = Append(@, task)]
                /\ serving' = [serving EXCEPT ![c] =
                      [pc |-> "idle", handle |-> Some(h), result |-> Some("panicked")]]
           ELSE /\ service' = [service EXCEPT
                      !.tasks = Append(@, task),
                      !.handles[h] = Some([Unwrap(@) EXCEPT ![cell] = Some(id)])]
                /\ serving' = [serving EXCEPT ![c] =
                      IF next = "idle"
                      THEN [pc |-> "idle", handle |-> Some(h), result |-> Some("returned")]
                      ELSE [@ EXCEPT !.pc = next]]

\* serve: the web server, when the configuration has a URL
ServeWeb(c) ==
    /\ serving[c].pc = "web"
    /\ spawn_and_set(c, "web", "web_server", "proxy")
    /\ UNCHANGED <<trees, call, config, store, req, clients, builders>>

\* serve: the proxy server
ServeProxy(c) ==
    /\ serving[c].pc = "proxy"
    /\ spawn_and_set(c, "proxy", "proxy_server", "idle")
    /\ UNCHANGED <<trees, call, config, store, req, clients, builders>>

\* the callers of serve, on the service and its clone
NextServe ==
    \/ Clone("service", "clone")
    \/ \E c \in Callers, h \in Handles : ServeEnter(c, h)
    \/ \E c \in Callers : ServeWeb(c)
    \/ \E c \in Callers : ServeProxy(c)

SpecServe == InitServe /\ [][NextServe]_vars

\* the proxy with the record store, under any inbound traffic
NextProxy ==
    \/ \E k \in BotLocalparts : StoreInsert(k)
    \/ \E k \in BotLocalparts : StoreRemove(k)
    \/ ReceiveAny
    \/ UpstreamOk
    \/ UpstreamErr
    \/ Done

SpecProxy == Init /\ [][NextProxy]_vars

\* the bots the registry is asked for
RegistryBots == BuildLocalparts \cap BotLocalparts

\* a call of build with any options
Build(b) ==
    \E lp \in BuildLocalparts \cup InvalidLocalparts,
       log_in \in BOOLEAN, create_new \in BOOLEAN :
        \E restored \in {None, Some(PriorSession(lp))} :
            BuildStart(b, lp, log_in, create_new, restored)

\* the registry with the record store
NextRegistry ==
    \/ \E k \in RegistryBots : StoreInsert(k)
    \/ \E k \in RegistryBots : StoreRemove(k)
    \/ \E b \in Sequential : Build(b)
    \/ \E b \in Sequential : BuildConfigured(b)
    \/ \E b \in Sequential : BuildLogin(b)
    \/ \E b \in Sequential : BuildRestore(b)

\* the registry of an appservice configured with a bare homeserver host
InitRegistry ==
    /\ Init
    /\ config.homeserver = <<RemoteHost>>

SpecRegistry ==
    InitRegistry /\ [][NextRegistry]_vars

\* a call of build that asks for no login and restores no session
BuildPlain(b) ==
    \E lp \in BuildLocalparts, create_new \in BOOLEAN :
        BuildStart(b, lp, FALSE, create_new, None)

\* the registry, the record store and the proxy under the traffic of the
\* cached virtual clients
NextClients ==
    \/ \E k \in RegistryBots : StoreInsert(k)
    \/ \E k \in RegistryBots : StoreRemove(k)
    \/ \E b \in Sequential : BuildPlain(b)
    \/ \E b \in Sequential : BuildConfigured(b)
    \/ \E b \in Sequential : BuildRestore(b)
    \/ ClientSend
    \/ UpstreamOk
    \/ UpstreamErr
    \/ Done

SpecClients ==
    InitRegistry /\ [][NextClients]_vars

\* the appservice at work: the record store, the registry, the proxy under
\* the traffic of the cached virtual clients, and serve
NextCore ==
    \/ \E k \in RegistryBots : StoreInsert(k)
    \/ \E k \in RegistryBots : StoreRemove(k)
    \/ \E b \in Sequential : BuildPlain(b)
    \/ \E b \in Sequential : BuildConfigured(b)
    \/ \E b \in Sequential : BuildRestore(b)
    \/ ClientSend
    \/ UpstreamOk
    \/ UpstreamErr
    \/ Done
    \/ ServeEnter("main", "service")
    \/ ServeProxy("main")

SpecCore ==
    InitRegistry /\ [][NextCore]_vars

\* sled::Db::open_tree: the tree of that name
open_tree(name) == IF name = state_user_records THEN store ELSE trees[name]

\* the database after the tree of that name has become `tree`
write_tree(name, tree) ==
    IF name = state_user_records
    THEN /\ store' = tree
         /\ trees' = trees
    ELSE /\ trees' = [trees EXCEPT ![name] = tree]
         /\ store' = store

\* State::insert on the tree `name`, opened through `via`
Insert(via, name, key, value) ==
    /\ LET r == state_insert(open_tree(name), key, value) IN
       /\ write_tree(name, r.tree)
       /\ call' = Some([op |-> "insert", via |-> via, tree |-> name, key |-> key,
                        value |-> Some(value), returned |-> r.previous])
    /\ UNCHANGED <<service, serving, config, req, clients, builders>>

\* State::remove on the tree `name`, opened through `via`
Remove(via, name, key) ==
    /\ LET r == state_remove(open_tree(name), key) IN
       /\ write_tree(name, r.tree)
       /\ call' = Some([op |-> "remove", via |-> via, tree |-> name, key |-> key,
                        value |-> None, returned |-> r.previous])
    /\ UNCHANGED <<service, serving, config, req, clients, builders>>

\* State::get on the tree `name`, opened through `via`
Get(via, name, key) ==
    /\ call' = Some([op |-> "get", via |-> via, tree |-> name, key |-> key,
                     value |-> None, returned |-> state_get(open_tree(name), key)])
    /\ UNCHANGED <<trees, service, serving, config, store, req, clients, builders>>

\* State::keys on the tree `name`, opened through `via`
Keys(via, name) ==
    /\ call' = Some([op |-> "keys", via |-> via, tree |-> name, key |-> "",
                     value |-> None, returned |-> state_keys(open_tree(name))])
    /\ UNCHANGED <<trees, service, serving, config, store, req, clients, builders>>

\* the core works on the user records
UserState ==
    \E key \in RegistryBots :
        \/ \E value \in UserRecords(key) :
              Insert("state_user_records", state_user_records, key, value)
        \/ Remove("state_user_records", state_user_records, key)
        \/ Get("state_user_records", state_user_records, key)
        \/ Keys("state_user_records", state_user_records)

\* a caller works on a collection of its own
CustomState ==
    \E collection \in Collections, key \in TreeKeys :
        \/ \E value \in UserRecords(key) :
              Insert("custom_state", custom_state(collection), key, value)
        \/ Remove("custom_state", custom_state(collection), key)
        \/ Get("custom_state", custom_state(collection), key)
        \/ Keys("custom_state", custom_state(collection))

\* the database under the calls of the core and of the callers
NextStore ==
    \/ UserState
    \/ CustomState

SpecStore == InitRegistry /\ [][NextStore]_vars

\* Appservice::new on a database that holds a record for every bot the
\* registry is asked for
InitRace ==
    /\ config = [homeserver |-> <<RemoteHost>>,
                 appservice_token |-> MasterSecret,
                 sender_localpart |-> SenderLocalpart,
                 url |-> None,
                 proxy_ports |-> DefaultPortRange]
    /\ store \in {[k \in BotLocalparts |->
                     IF k \in RegistryBots THEN Some(into_writer(records[k])) ELSE None] :
                  records \in [RegistryBots -> UNION {UserRecords(k) : k \in RegistryBots}]}
    /\ req = IdleRequest
    /\ clients = [lp \in BuildLocalparts |-> None]
    /\ builders = [b \in Builders |-> IdleBuilder]
    /\ trees = [n \in TreeNames |-> EmptyTree]
    /\ call = None
    /\ service = NewService(DefaultPortRange.low)
    /\ serving = [c \in Callers |-> IdleCaller]

\* a call of build that restores no session and may ask for a login
BuildFresh(b) ==
    \E lp \in BuildLocalparts, log_in \in BOOLEAN, create_new \in BOOLEAN :
        BuildStart(b, lp, log_in, create_new, None)

\* builds that run at the same time, none with a session to restore: the
\* caller's with or without login, the others' without
NextRace ==
    \/ \E b \in Sequential : BuildFresh(b)
    \/ \E b \in Builders \ Sequential : BuildPlain(b)
    \/ \E b \in Builders : BuildConfigured(b)
    \/ \E b \in Builders : BuildLogin(b)
    \/ \E b \in Builders : BuildRestore(b)

SpecRace == InitRace /\ [][NextRace]_vars

(***************************************************************************)
(* Properties of the proxy                                                 *)
(***************************************************************************)
\* the request the handler is working on, as it came in
Inbound == Unwrap(req.inbound)

\* the request the handler sent upstream
Forwarded == Unwrap(req.forwarded)

\* the strings of a header map
HeaderAtoms(headers) ==
    UNION {UNION {{headers[n][i][j] : j \in 1..Len(headers[n][i])} :
                    i \in 1..Len(headers[n])} :
             n \in DOMAIN headers}

\* a step in which the handler takes up a request
ReceiveStep == req.phase = "Idle" /\ req'.phase # "Idle"

\* C1: a request with role SERVICE and the ProxySecret as x-proxy-token is
\* forwarded with exactly one Authorization value, "Bearer <master appservice
\* secret>", whatever Authorization the caller sent, and with none of the four
\* internal headers
C1_ServiceForwardedWithMasterSecret ==
    ( /\ IsSome(req.inbound)
      /\ can_parse(Inbound)
      /\ Inbound.headers["x-proxy-role"] = <<<<"SERVICE">>>>
      /\ Inbound.headers["x-proxy-token"] = <<<<ProxySecret>>>> )
    => /\ IsSome(req.forwarded)
       /\ Forwarded.headers["authorization"] = <<<<"Bearer ", MasterSecret>>>>
       /\ \A n \in InternalHeaders : Forwarded.headers[n] = <<>>

\* C1 witness: a SERVICE request that came with an Authorization of the
\* caller's own has been forwarded
C1_Witness ==
    /\ req.phase = "Forwarded"
    /\ Inbound.headers["x-proxy-role"] = <<<<"SERVICE">>>>
    /\ Inbound.headers["authorization"] = <<<<"Bearer ", BotSecret(1)>>>>
    /\ Forwarded.headers["authorization"] = <<<<"Bearer ", MasterSecret>>>>

\* C2: when a request with role BOT, the ProxySecret as x-proxy-token and, as
\* x-proxy-bot-token, the token of the record stored under the localpart L
\* named in x-proxy-bot-user is taken up, it is forwarded with Authorization
\* "Bearer <master appservice secret>" and a query that holds
\* user_id=%40L%3A<server name>, the percent-encoded form of @L:<server name>
C2_BotForwardedWithMasterSecretAndUserId ==
    [][\A L \in BotLocalparts :
        ( /\ ReceiveStep
          /\ can_parse(Unwrap(req'.inbound))
          /\ Unwrap(req'.inbound).headers["x-proxy-role"] = <<<<"BOT">>>>
          /\ Unwrap(req'.inbound).headers["x-proxy-token"] = <<<<ProxySecret>>>>
          /\ Unwrap(req'.inbound).headers["x-proxy-bot-user"] = <<<<L>>>>
          /\ IsSome(store[L])
          /\ Unwrap(req'.inbound).headers["x-proxy-bot-token"]
                = <<<<Unwrap(state_get(store, L)).token>>>> )
        => /\ IsSome(req'.forwarded)
           /\ Unwrap(req'.forwarded).headers["authorization"] = <<<<"Bearer ", MasterSecret>>>>
           /\ \E i \in 1..Len(Unwrap(req'.forwarded).url.query) :
                 /\ Unwrap(req'.forwarded).url.query[i] = <<"user_id", <<"%40", L, "%3A", RemoteHost>>>>
                 /\ percent_decode(Unwrap(req'.forwarded).url.query[i][2])
                       = <<"@", L, ":", RemoteHost>>
    ]_vars

\* C2 witness: a BOT request for alice has been forwarded with the master
\* secret and alice's user id in the query
C2_Witness ==
    /\ req.phase = "Forwarded"
    /\ Inbound.headers["x-proxy-role"] = <<<<"BOT">>>>
    /\ Inbound.headers["x-proxy-bot-user"] = <<<<"alice">>>>
    /\ Forwarded.headers["authorization"] = <<<<"Bearer ", MasterSecret>>>>
    /\ \E i \in 1..Len(Forwarded.url.query) :
          Forwarded.url.query[i] = <<"user_id", <<"%40", "alice", "%3A", RemoteHost>>>>

\* the requests C3 names: no x-proxy-role, a role other than SERVICE and BOT,
\* an x-proxy-token that is not the ProxySecret, or, for BOT, no
\* x-proxy-bot-token, no x-proxy-bot-user, no record under the localpart, or a
\* bot token that is not the token of the record
Rejectable(value, tree) ==
    LET role == value.headers["x-proxy-role"]
        bot_token == value.headers["x-proxy-bot-token"]
        bot_user == value.headers["x-proxy-bot-user"]
    IN  \/ role = <<>>
        \/ role \notin {<<<<"SERVICE">>>>, <<<<"BOT">>>>}
        \/ value.headers["x-proxy-token"] # <<<<ProxySecret>>>>
        \/ /\ role = <<<<"BOT">>>>
           /\ \/ bot_token = <<>>
              \/ bot_user = <<>>
              \/ tree[bot_user[1][1]] = None
              \/ bot_token # <<<<Unwrap(tree[bot_user[1][1]]).token>>>>

\* C3: every request that lacks x-proxy-role, has another role than SERVICE or
\* BOT, has a wrong x-proxy-token or, for BOT, a missing bot header, an unknown
\* localpart or a wrong bot token, is answered 401 "proxy.unauthorized" and
\* causes no upstream call
C3_RejectedWith401 ==
    [][( /\ ReceiveStep
         /\ Rejectable(Unwrap(req'.inbound), store) )
       => /\ req'.response = Some([status |-> 401, body |-> <<"proxy.unauthorized">>])
          /\ req'.forwarded = None
          /\ req'.calls = 0
    ]_vars

\* the URL the handler reconstructs from the inbound request
OriginalUrl == ProxiedRequest_from(Inbound).url

\* C4: a verified request whose host is not the homeserver's is forwarded to
\* the host, port, path and query of the original request
C4_OtherHostUrlUnchanged ==
    ( /\ IsSome(req.forwarded)
      /\ OriginalUrl.host # homeserver_url(config).host )
    => /\ Forwarded.url.host = OriginalUrl.host
       /\ Forwarded.url.port = OriginalUrl.port
       /\ Forwarded.url.path = OriginalUrl.path
       /\ Forwarded.url.query = OriginalUrl.query

\* C5: a verified request whose host is not the homeserver's is forwarded
\* without the master appservice secret in its Authorization header
C5_MasterSecretOnlyToHomeserver ==
    ( /\ IsSome(req.forwarded)
      /\ Forwarded.url.host # homeserver_url(config).host )
    => \A i \in 1..Len(Forwarded.headers["authorization"]) :
          \A j \in 1..Len(Forwarded.headers["authorization"][i]) :
              Forwarded.headers["authorization"][i][j] # MasterSecret

\* C6: no request sent upstream, for either role and any host, carries a
\* header of the internal proxy protocol, whatever the inbound request carried
C6_NoInternalHeaderUpstream ==
    IsSome(req.forwarded)
    => /\ \A n \in InternalHeaders : Forwarded.headers[n] = <<>>
       /\ \A n \in DOMAIN Forwarded.headers :
             starts_with(n, "x-proxy-") => Forwarded.headers[n] = <<>>

\* C6 witness: a BOT request to another host that came with all four internal
\* headers has been sent upstream
C6_Witness ==
    /\ req.phase = "Forwarded"
    /\ \A n \in InternalHeaders : Inbound.headers[n] # <<>>
    /\ Inbound.headers["x-proxy-role"] = <<<<"BOT">>>>
    /\ Forwarded.url.host = OtherHost
    /\ \A n \in InternalHeaders : Forwarded.headers[n] = <<>>

\* the strings a response body holds
BodyAtoms(body) ==
    {body[i] : i \in {k \in 1..Len(body) : body[k] \in STRING}}

\* C7: no line the handler logs and no response body it produces holds the
\* ProxySecret, a bot secret or the master appservice secret
C7_NoSecretInLogsOrBodies ==
    /\ \A i \in 1..Len(req.logs) :
          HeaderAtoms(req.logs[i].request.headers) \cap Secrets = {}
    /\ IsSome(req.response) => BodyAtoms(Unwrap(req.response).body) \cap Secrets = {}

(***************************************************************************)
(* Properties of the registry                                              *)
(***************************************************************************)
\* C8: the session of a cached Bot client that was built without a login and
\* without a restored session does not have the master appservice secret as
\* its access token, and the master secret is in none of its headers
C8_BotClientHoldsNoMasterSecret ==
    \A lp \in DOMAIN clients :
        ( /\ IsSome(clients[lp])
          /\ Unwrap(clients[lp]).kind = "Bot"
          /\ Unwrap(Unwrap(clients[lp]).session).origin = "synthesized" )
        => /\ Unwrap(Unwrap(clients[lp]).session).access_token # MasterSecret
           /\ MasterSecret \notin HeaderAtoms(Unwrap(clients[lp]).headers)

\* C9: once the record of localpart L is gone from the store, a request that
\* presents role BOT for L is answered 401 and not forwarded, whatever bot
\* token it carries
C9_RemovedBotRejected ==
    [][\A L \in BotLocalparts :
        ( /\ ReceiveStep
          /\ can_parse(Unwrap(req'.inbound))
          /\ Unwrap(req'.inbound).headers["x-proxy-role"] = <<<<"BOT">>>>
          /\ Unwrap(req'.inbound).headers["x-proxy-bot-user"] = <<<<L>>>>
          /\ store[L] = None )
        => /\ req'.phase = "Unauthorized"
           /\ Unwrap(req'.response).status = 401
           /\ req'.forwarded = None
           /\ req'.calls = 0
    ]_vars

\* C9 witness: alice's record has been removed while a client built for alice
\* is still cached, and a request of that client has been answered 401
C9_Witness ==
    /\ IsSome(clients["alice"])
    /\ store["alice"] = None
    /\ req.phase = "Unauthorized"
    /\ Inbound = client_request(Unwrap(clients["alice"]))
    /\ Inbound.headers["x-proxy-bot-token"] # <<>>

\* C10: a build without create_new for a localpart the cache holds returns the
\* cached client at once, with no construction, no record look-up and no
\* login, and changes neither the cache nor the store; and the client a
\* successful construction returns is the one it put into the cache, so that
\* two builds in sequence return the same client
C10_CachedClientReturnedUnchanged ==
    [][\A b \in Builders :
        /\ ( /\ builders[b].pc = "idle"
             /\ builders'[b] # builders[b]
             /\ ~builders'[b].create_new
             /\ builders'[b].localpart \in DOMAIN clients
             /\ IsSome(clients[builders'[b].localpart]) )
           => /\ builders'[b].pc = "idle"
              /\ builders'[b].result = Ok(Unwrap(clients[builders'[b].localpart]))
              /\ builders'[b].client = None
              /\ ~builders'[b].looked_up
              /\ ~builders'[b].login_call
              /\ clients' = clients
              /\ store' = store
              /\ req' = req
        /\ ( /\ builders[b].pc = "restoring"
             /\ builders'[b].pc = "idle"
             /\ Unwrap(builders'[b].result).ok )
           => clients'[builders'[b].localpart]
                 = Some(Unwrap(builders'[b].result).client)
    ]_vars

\* C10 witness: a build for alice was served from the cache after alice's
\* record had been removed
C10_Witness ==
    \E b \in Builders :
        /\ builders[b].pc = "idle"
        /\ builders[b].cache_hit
        /\ builders[b].localpart = "alice"
        /\ store["alice"] = None
        /\ builders[b].result = Ok(Unwrap(clients["alice"]))

\* C11: a build with create_new that succeeds for a localpart the cache holds
\* returns a client that is not the cached one and leaves the cache holding
\* that new client under the localpart, every other entry as it was
C11_ForcedBuildReplacesCachedClient ==
    [][\A b \in Builders :
        ( /\ builders[b].pc = "restoring"
          /\ builders'[b].pc = "idle"
          /\ Unwrap(builders'[b].result).ok
          /\ builders[b].create_new
          /\ IsSome(clients[builders[b].localpart]) )
        => /\ Unwrap(builders'[b].result).client.id
                 # Unwrap(clients[builders[b].localpart]).id
           /\ clients'[builders[b].localpart]
                 = Some(Unwrap(builders'[b].result).client)
           /\ \A lp \in DOMAIN clients \ {builders[b].localpart} :
                 clients'[lp] = clients[lp]
    ]_vars

\* C11 witness: with nothing cached for the service, alice's cache entry is
\* the second client built for alice, returned by a build with create_new
C11_Witness ==
    \E b \in Builders :
        /\ builders[b].pc = "idle"
        /\ builders[b].create_new
        /\ builders[b].localpart = "alice"
        /\ ~builders[b].cache_hit
        /\ IsSome(clients["alice"])
        /\ builders[b].result = Ok(Unwrap(clients["alice"]))
        /\ clients[SenderLocalpart] = None
        /\ Unwrap(clients["alice"]).id = 2

C13_UpstreamFailureNotRetried ==
    [][ /\ req'.calls <= 1
        /\ req'.phase = "UpstreamError"
           => /\ Unwrap(req'.response).status = 500
              /\ req'.calls = 1
              /\ req.phase \in {"Forwarded", "UpstreamError"}
              /\ req'.forwarded = req.forwarded
        /\ req.phase = "UpstreamError"
           => req' \in {req, IdleRequest}
    ]_vars

\* C13 witness: the outbound call of a forwarded request has failed
C13_Witness ==
    /\ req.phase = "UpstreamError"
    /\ req.calls = 1
    /\ Unwrap(req.response).status = 500

(***************************************************************************)
(* Properties of the construction and the start of the service             *)
(***************************************************************************)
\* the proxy server tasks the runtime was given
ProxyTasks == {i \in 1..Len(service.tasks) : service.tasks[i].server = "proxy"}

\* C14: whatever calls of serve were made, through the service or a clone of
\* it, one after the other or at once, at most one proxy server task was
\* started and no call panicked
C14_ServeStartsProxyOnce ==
    /\ Cardinality(ProxyTasks) <= 1
    /\ \A c \in Callers : serving[c].result # Some("panicked")

\* C15: the resolver of a service whose proxy port is P answers every
\* hostname with Ok of the single address 127.0.0.1:P
C15_ResolverAnswersLoopback ==
    (IsSome(call) /\ Unwrap(call).op = "resolve")
    => /\ Unwrap(call).returned.ok
       /\ Unwrap(call).returned.addrs
             = <<[ip |-> <<127, 0, 0, 1>>,
                  port |-> Unwrap(service.handles["service"]).proxy_port]>>

\* C15 witness: a hostname other than the homeserver's and localhost was
\* resolved by the resolver of a service on port 65534
C15_Witness ==
    /\ IsSome(call)
    /\ Unwrap(call).op = "resolve"
    /\ Unwrap(call).name = OtherHost
    /\ Unwrap(call).resolver = U16 - 2
    /\ Unwrap(call).returned.addrs[1].port = U16 - 2

\* C18: the candidates handed to the picker are the ports low..high of the
\* configured range, and the port picked is one of them
C18_PortPickedFromInclusiveRange ==
    (IsSome(call) /\ Unwrap(call).op = "pick")
    => /\ Unwrap(call).candidates
             = Some(Unwrap(call).value.low..Unwrap(call).value.high)
       /\ Unwrap(call).returned.ok
             => Unwrap(call).returned.port
                   \in Unwrap(call).value.low..Unwrap(call).value.high

(***************************************************************************)
(* Properties of the database                                              *)
(***************************************************************************)
\* the tree a call worked on, before and after the call
TreeBefore == IF Unwrap(call').tree = state_user_records
              THEN store ELSE trees[Unwrap(call').tree]

TreeAfter == IF Unwrap(call').tree = state_user_records
             THEN store' ELSE trees'[Unwrap(call').tree]

\* C16: insert returns the value stored under the key before and get then
\* returns the inserted value; remove returns the value stored before and get
\* then returns none; get returns the value stored; keys returns the keys
\* that have a value; no call changes the value of another key
C16_StateIsMapPerKey ==
    [][ (call' # call) =>
        LET c == Unwrap(call') IN
        /\ c.op = "insert"
           => /\ c.returned = state_get(TreeBefore, c.key)
              /\ state_get(TreeAfter, c.key) = c.value
        /\ c.op = "remove"
           => /\ c.returned = state_get(TreeBefore, c.key)
              /\ state_get(TreeAfter, c.key) = None
        /\ c.op = "get"
           => /\ c.returned = read(TreeBefore[c.key])
              /\ TreeAfter = TreeBefore
        /\ c.op = "keys"
           => /\ c.returned = {k \in TreeKeys : read(TreeBefore[k]) # None}
              /\ TreeAfter = TreeBefore
        /\ \A k \in TreeKeys \ {c.key} : TreeAfter[k] = TreeBefore[k]
    ]_vars

\* C16 witness: an insert has replaced a different record and handed it back
C16_Witness ==
    /\ IsSome(call)
    /\ Unwrap(call).op = "insert"
    /\ IsSome(Unwrap(call).returned)
    /\ Unwrap(call).returned # Unwrap(call).value
    /\ state_get(open_tree(Unwrap(call).tree), Unwrap(call).key) = Unwrap(call).value

\* C17: the tree custom_state opens is never the tree of the user records,
\* whatever the collection is called, and no call made through custom_state
\* reads or changes a user record
C17_CustomStateApartFromUserRecords ==
    [][ /\ \A collection \in Collections :
              custom_state(collection) # state_user_records
        /\ (call' # call /\ Unwrap(call').via = "custom_state")
           => /\ store' = store
              /\ Unwrap(call').tree # state_user_records
              /\ Unwrap(call').op \in {"get", "remove"}
                 => Unwrap(call').returned = read(trees[Unwrap(call').tree][Unwrap(call').key])
    ]_vars

\* C17 witness: a caller has put a record for alice into its collection
\* named internal/user_records, and the user records have none for alice
C17_Witness ==
    /\ IsSome(call)
    /\ Unwrap(call).via = "custom_state"
    /\ Unwrap(call).op = "insert"
    /\ Unwrap(call).key = "alice"
    /\ Unwrap(call).tree = "custom/internal/user_records"
    /\ IsSome(trees["custom/internal/user_records"]["alice"])
    /\ store["alice"] = None

(***************************************************************************)
(* Properties of the request life cycle and of the target resolution       *)
(***************************************************************************)
\* C19: a request is Idle, Unauthorized, Forwarded, Streamed or
\* UpstreamError; it is forwarded only when authorized, and it has left the
\* handler only with its one response: 401 when unauthorized, the upstream
\* response when streamed, 500 on an upstream error
C19_EveryRequestAnswered ==
    /\ req.phase \in {"Idle", "Unauthorized", "Forwarded", "Streamed", "UpstreamError"}
    /\ req.phase \in {"Forwarded", "Streamed", "UpstreamError"}
       => /\ IsSome(req.forwarded)
          /\ Forwarded.headers["authorization"] = <<<<"Bearer ", MasterSecret>>>>
          /\ req.calls = 1
    /\ req.phase = "Unauthorized"
       => req.forwarded = None /\ Unwrap(req.response).status = 401
    /\ req.phase = "Streamed" => IsSome(req.response)
    /\ req.phase = "UpstreamError" => Unwrap(req.response).status = 500
    /\ req.phase \in {"Idle", "Forwarded"} => req.response = None

\* Url::port_or_known_default
port_or_known_default(url) ==
    IF url.port # "" THEN url.port
    ELSE IF url.scheme = "http" THEN "80" ELSE "443"

\* C20: the URL forwarded for a verified request to the homeserver's host has
\* the scheme of the homeserver URL and the host and path of the original
\* URL; the port the original URL names is the port of the forwarded URL, and
\* a URL that names no port is forwarded without one
C20_OnlySchemeRewrittenForHomeserver ==
    (req.phase = "Forwarded" /\ OriginalUrl.host = homeserver_url(config).host)
    => /\ Forwarded.url.scheme = homeserver_url(config).scheme
       /\ Forwarded.url.host = OriginalUrl.host
       /\ Forwarded.url.path = OriginalUrl.path
       /\ IF OriginalUrl.port # ""
          THEN port_or_known_default(Forwarded.url) = OriginalUrl.port
          ELSE Forwarded.url.port = ""

\* C20 witness: a request to the homeserver on port 8448 was forwarded over
\* http, the scheme of the configured homeserver URL
C20_Witness ==
    /\ req.phase = "Forwarded"
    /\ config.homeserver = <<"http", "://", RemoteHost>>
    /\ OriginalUrl.scheme = "https"
    /\ OriginalUrl.port = "8448"
    /\ Forwarded.url.scheme = "http"
    /\ Forwarded.url.host = RemoteHost
    /\ Forwarded.url.port = "8448"

(***************************************************************************)
(* Properties of builds that run at the same time                          *)
(***************************************************************************)
\* C21: the client cached for a localpart is replaced only by a build that
\* was called with create_new
C21_OnlyForcedBuildReplacesEntry ==
    [][\A lp \in DOMAIN clients :
        (IsSome(clients[lp]) /\ clients'[lp] # clients[lp])
        => \E b \in Builders :
              /\ builders[b].pc = "restoring"
              /\ builders'[b].pc = "idle"
              /\ builders[b].localpart = lp
              /\ builders[b].create_new
    ]_vars

\* two builds without create_new have each constructed a client for lp
Raced(b1, b2, lp) ==
    /\ b1 # b2
    /\ \A b \in {b1, b2} :
          /\ builders[b].pc = "idle"
          /\ builders[b].localpart = lp
          /\ ~builders[b].create_new
          /\ ~builders[b].cache_hit
          /\ IsSome(builders[b].result)
          /\ Unwrap(builders[b].result).ok

\* C22: when two builds without create_new have both constructed a client
\* for a localpart, the two clients are different and the cache holds one of
\* them under that localpart
C22_RaceLeavesOneOfTheTwo ==
    \A b1, b2 \in Builders : \A lp \in DOMAIN clients :
        Raced(b1, b2, lp)
        => /\ Unwrap(builders[b1].result).client.id # Unwrap(builders[b2].result).client.id
           /\ clients[lp] \in {Some(Unwrap(builders[b1].result).client),
                               Some(Unwrap(builders[b2].result).client)}

\* C22 witness: two builds for alice have raced and the cache holds the
\* client of the racer
C22_Witness ==
    /\ Raced("caller", "racer", "alice")
    /\ clients["alice"] = Some(Unwrap(builders["racer"].result).client)
    /\ clients["alice"] # Some(Unwrap(builders["caller"].result).client)

C24_FailedBuildKeepsCache ==
    [][ /\ clients' # clients
           => \E b \in Builders :
                 /\ builders[b].pc = "restoring"
                 /\ builders'[b].pc = "idle"
                 /\ Unwrap(builders'[b].result).ok
        /\ \A b \in Builders :
              ( /\ builders'[b] # builders[b]
                /\ IsSome(builders'[b].result)
                /\ ~Unwrap(builders'[b].result).ok )
              => clients' = clients
    ]_vars

\* C24 witness: a build with create_new for alice has failed at
\* restore_session and the cache holds a client for alice
C24_Witness ==
    \E b \in Builders :
        /\ builders[b].pc = "idle"
        /\ builders[b].create_new
        /\ builders[b].localpart = "alice"
        /\ builders[b].result = Err(<<"RestoreSession">>)
        /\ IsSome(clients["alice"])

\* a build of this localpart with these options sends a login request
LoginDue(r) ==
    /\ client_kind(r.localpart) = "Bot"
    /\ r.log_in
    /\ r.restored_session = None

\* C25: a build sends the login request only for a Bot with log_in and no
\* session to restore, and a build that has reached restore_session with
\* these has sent it; a session to restore is the session that is restored
C25_LoginOnlyForBotWithoutSession ==
    \A b \in Builders :
        /\ builders[b].login_call => LoginDue(builders[b])
        /\ ( \/ builders[b].pc \in {"login", "restoring"}
             \/ /\ builders[b].pc = "idle"
                /\ IsSome(builders[b].result)
                /\ Unwrap(builders[b].result).ok
                /\ ~builders[b].cache_hit )
           => (LoginDue(builders[b]) => builders[b].login_call)
        /\ (builders[b].pc = "restoring" /\ IsSome(builders[b].restored_session))
           => builders[b].session = builders[b].restored_session

\* C25 witness: the Service client was built with log_in and no login
\* request was sent
C25_Witness ==
    \E b \in Builders :
        /\ builders[b].pc = "idle"
        /\ builders[b].localpart = SenderLocalpart
        /\ builders[b].log_in
        /\ builders[b].restored_session = None
        /\ ~builders[b].cache_hit
        /\ IsSome(builders[b].result)
        /\ Unwrap(builders[b].result).ok
        /\ ~builders[b].login_call
        /\ Unwrap(Unwrap(builders[b].result).client.session).origin = "synthesized"

KeepsSecret(client) ==
    /\ client.localpart \in DOMAIN store
    /\ IsSome(store[client.localpart])
    /\ client.headers["x-proxy-bot-token"]
          = <<<<Unwrap(state_get(store, client.localpart)).token>>>>

\* C27: a request of a cached virtual client is verified as the identity the
\* client was built for and forwarded: always for the Service client, and
\* for a Bot client while the stored record keeps the client's secret
C27_ClientRequestsPassAsTheirIdentity ==
    [][ \A lp \in BuildLocalparts :
          ( /\ req.phase = "Idle"
            /\ req'.phase # "Idle"
            /\ IsSome(clients[lp])
            /\ req'.inbound = Some(client_request(Unwrap(clients[lp])))
            /\ Unwrap(clients[lp]).kind = "Bot" => KeepsSecret(Unwrap(clients[lp])) )
          => /\ req'.phase = "Forwarded"
             /\ verify_entity(ProxiedRequest_from(Unwrap(req'.inbound)))
                  = Some(IF lp = config.sender_localpart
                         THEN [kind |-> "Service",
                               authorization |-> config.appservice_token]
                         ELSE [kind |-> "Bot",
                               authorization |-> config.appservice_token,
                               user_id |-> <<"@", lp, ":", server_name(config)>>])
    ]_vars

\* C27 witness: the request of the Bot client built for alice from a record
\* with a generated user id was forwarded
C27_Witness ==
    /\ req.phase = "Forwarded"
    /\ IsSome(clients["alice"])
    /\ req.inbound = Some(client_request(Unwrap(clients["alice"])))
    /\ KeepsSecret(Unwrap(clients["alice"]))
    /\ Unwrap(state_get(store, "alice")).user_id # <<"@", "alice", ":", RemoteHost>>

\* C28: the user_id appended to a verified Bot request, percent-decoded, is
\* the user id of the record stored under the localpart of the request
C28_UserIdIsTheStoredRecordsId ==
    [][\A L \in BotLocalparts :
        ( /\ req.phase = "Idle"
          /\ req'.phase = "Forwarded"
          /\ server_name(config) = RemoteHost
          /\ Unwrap(req'.inbound).headers["x-proxy-role"] = <<<<"BOT">>>>
          /\ Unwrap(req'.inbound).headers["x-proxy-bot-user"] = <<<<L>>>> )
        => LET query == Unwrap(req'.forwarded).url.query IN
           /\ query # <<>>
           /\ query[Len(query)][1] = "user_id"
           /\ percent_decode(query[Len(query)][2])
                 = Unwrap(state_get(store, L)).user_id
    ]_vars

\* the kind and the x-proxy-role of a client are those of its localpart
KindOfLocalpart(client) ==
    IF client.localpart = config.sender_localpart
    THEN /\ client.kind = "Service"
         /\ client.headers = service_headers
    ELSE /\ client.kind = "Bot"
         /\ client.headers["x-proxy-role"] = <<<<"BOT">>>>
         /\ client.headers["x-proxy-bot-user"] = <<<<client.localpart>>>>

\* C29: every client the registry holds, has under construction or has
\* returned is Service exactly when its localpart is the sender localpart,
\* and carries the internal headers of that kind
C29_KindFollowsLocalpart ==
    /\ \A lp \in BuildLocalparts :
          IsSome(clients[lp])
          => /\ Unwrap(clients[lp]).localpart = lp
             /\ KindOfLocalpart(Unwrap(clients[lp]))
    /\ \A b \in Builders :
          /\ IsSome(builders[b].client) => KindOfLocalpart(Unwrap(builders[b].client))
          /\ (IsSome(builders[b].result) /\ Unwrap(builders[b].result).ok)
             => KindOfLocalpart(Unwrap(builders[b].result).client)

\* C29 witness: the registry holds the Service client under the sender
\* localpart and a Bot client under alice
C29_Witness ==
    /\ IsSome(clients[SenderLocalpart])
    /\ Unwrap(clients[SenderLocalpart]).kind = "Service"
    /\ IsSome(clients["alice"])
    /\ Unwrap(clients["alice"]).kind = "Bot"

\* C30: a forwarded request carries every header of the inbound request
\* other than authorization and the x-proxy- headers with all of its
\* values, and the method, version and body of the inbound request
C30_OtherHeadersForwardedWhole ==
    req.phase = "Forwarded"
    => /\ \A n \in HeaderNames \ ({"authorization"} \cup InternalHeaders) :
             Unwrap(req.forwarded).headers[n] = Unwrap(req.inbound).headers[n]
       /\ Unwrap(req.forwarded).method = Unwrap(req.inbound).method
       /\ Unwrap(req.forwarded).version = Unwrap(req.inbound).version
       /\ Unwrap(req.forwarded).body = Unwrap(req.inbound).body

\* the user_id parameters of a query
user_id_pairs(query) == {i \in 1..Len(query) : query[i][1] = "user_id"}

\* C31: the query of a forwarded Bot request has exactly one user_id
\* parameter, and its value is the id of the bot the request was verified as
C31_ExactlyOneUserId ==
    \A L \in BotLocalparts :
        ( /\ req.phase = "Forwarded"
          /\ Inbound.headers["x-proxy-role"] = <<<<"BOT">>>>
          /\ Inbound.headers["x-proxy-bot-user"] = <<<<L>>>> )
        => /\ Cardinality(user_id_pairs(Forwarded.url.query)) = 1
           /\ \A i \in user_id_pairs(Forwarded.url.query) :
                 Forwarded.url.query[i][2]
                    = byte_serialize(<<"@", L, ":", server_name(config)>>)

\* the values wired into the Bot client of L: the proxy token, the token of
\* the stored record and the localpart
WiredInto(L) == {ProxySecret, Unwrap(state_get(store, L)).token, L}

\* the internal headers and the authorization of a request carry only values
\* wired into the Bot client of L
MadeFromClientOf(L, value) ==
    /\ \A n \in {"x-proxy-token", "x-proxy-bot-token", "x-proxy-bot-user"} :
          \A i \in 1..Len(value.headers[n]) :
              value.headers[n][i][1] \in WiredInto(L)
    /\ \A i \in 1..Len(value.headers["authorization"]) :
          value.headers["authorization"][i][2] \in WiredInto(L)

\* C32: a request made from the values wired into the Bot client of L only
\* is, when it is forwarded, forwarded with the user_id of L
C32_BotValuesGiveNoServicePrivileges ==
    [][\A L \in BotLocalparts :
        ( /\ req.phase = "Idle"
          /\ req'.phase = "Forwarded"
          /\ IsSome(store[L])
          /\ MadeFromClientOf(L, Unwrap(req'.inbound)) )
        => LET query == Unwrap(req'.forwarded).url.query IN
           /\ query # <<>>
           /\ query[Len(query)]
                 = <<"user_id", byte_serialize(<<"@", L, ":", server_name(config)>>)>>
    ]_vars

====
